---- MODULE Spec2Model ----
(***************************************************************************)
(* Job orchestration engine of automatic-beer-goggles                      *)
(* (orchestration/workflow.py, config/platforms.py, video/generation.py).  *)
(*                                                                         *)
(* ProcessingJob objects live in a heap and the orchestrator's self.jobs   *)
(* is a list of references to them, as in Python: the pool workers and the *)
(* caller's thread share the objects.  One caller thread drives the public *)
(* operations; the workers of the ThreadPoolExecutor run concurrently with *)
(* it between the start and the return of process_all_jobs.                *)
(***************************************************************************)
EXTENDS Integers, Sequences, FiniteSets, TLC

\* ------------------------------------------------------------------ bounds
\* ProcessingJob objects created since the last clear_jobs
MaxJobs == 2
\* the values max_concurrent_jobs is drawn from
WorkerCounts == {1, 2}

\* ------------------------------------------------------------ basic values
\* Python's None, where a string may stand instead
NONE == "<None>"

PENDING == "pending"
PROCESSING == "processing"
COMPLETED == "completed"
FAILED == "failed"
Statuses == {PENDING, PROCESSING, COMPLETED, FAILED}

Range(s) == {s[i] : i \in DOMAIN s}

\* an empty dict
EmptyDict == [k \in {} |-> NONE]

\* ------------------------------------------------------- config/platforms.py
\* The registry: identifier -> display name and supported aspect ratios.
PLATFORM_CONFIGS ==
  [ facebook  |-> [name |-> "Facebook",  aspect_ratios |-> <<"16:9", "9:16">>],
    instagram |-> [name |-> "Instagram", aspect_ratios |-> <<"1:1", "9:16">>],
    youtube   |-> [name |-> "YouTube",   aspect_ratios |-> <<"16:9", "9:16">>],
    tiktok    |-> [name |-> "TikTok",    aspect_ratios |-> <<"9:16">>],
    twitter   |-> [name |-> "Twitter",   aspect_ratios |-> <<"1:1", "16:9">>],
    linkedin  |-> [name |-> "LinkedIn",  aspect_ratios |-> <<"16:9", "1:1", "9:16">>] ]

list_supported_platforms == DOMAIN PLATFORM_CONFIGS

\* str.lower() on the identifiers and display names the model uses
Lower(s) ==
  CASE s = "TikTok"    -> "tiktok"
    [] s = "Twitter"   -> "twitter"
    [] s = "Facebook"  -> "facebook"
    [] s = "Instagram" -> "instagram"
    [] s = "YouTube"   -> "youtube"
    [] s = "LinkedIn"  -> "linkedin"
    [] OTHER           -> s

get_platform_config(platform) == PLATFORM_CONFIGS[Lower(platform)]

\* ------------------------------------------------------------------- inputs
\* Audio paths: two existing files with the same base name in different
\* directories, and one path that does not exist.
AudioIn1 == [dir |-> "in1", stem |-> "a", exists |-> TRUE]
AudioIn2 == [dir |-> "in2", stem |-> "a", exists |-> TRUE]
AudioGone == [dir |-> "in1", stem |-> "gone", exists |-> FALSE]
AudioB == [dir |-> "in1", stem |-> "b", exists |-> TRUE]
AudioPaths == {AudioIn1, AudioIn2, AudioGone, AudioB}

Cover == [stem |-> "cover", exists |-> TRUE]
NoCover == [stem |-> "nocover", exists |-> FALSE]

Call(audio_file, image_file, platforms, job_id) ==
  [audio_file |-> audio_file, image_file |-> image_file,
   platforms |-> platforms, job_id |-> job_id]

\* The add_job calls a caller makes.  Platform lists: mixed case, the same
\* platform twice, empty, and one with an identifier the registry lacks.
\* job_id: supplied or omitted (NONE); "a_1" is also the id add_job generates
\* for an audio file a.wav added as the second job.
AddJobCalls ==
  { Call(AudioIn1, Cover, <<"Twitter">>, "a_1"),
    Call(AudioIn2, Cover, <<"tiktok", "TikTok">>, NONE),
    Call(AudioIn1, Cover, <<>>, NONE),
    Call(AudioGone, Cover, <<"Twitter">>, NONE),
    Call(AudioIn1, NoCover, <<"Twitter">>, NONE),
    Call(AudioIn1, Cover, <<"TikTok", "vimeo">>, NONE) }

\* ------------------------------------------------------------------- state
VARIABLES
  heap,    \* the ProcessingJob objects, by reference (1..Len(heap))
  jobs,    \* self.jobs: a list of references
  disk,    \* mastered_audio/<stem>_mastered.wav: the audio it was made from
  config,  \* WorkflowConfig: max_concurrent_jobs, resume_on_failure
  pc,      \* the caller's thread: "idle", or "collecting" in as_completed
  tasks,   \* the executor's futures in submission order
  ret      \* the last operation of the caller: arguments and outcome

vars == <<heap, jobs, disk, config, pc, tasks, ret>>

Stems == {a.stem : a \in AudioPaths}
NoAudio == [dir |-> NONE, stem |-> NONE, exists |-> FALSE]

ZeroCounts == [s \in Statuses |-> 0]
NoArgs == Call(NoAudio, [stem |-> NONE, exists |-> FALSE], <<>>, NONE)

\* the report of an operation that writes none
NoReport == [jobs |-> <<>>, summary |-> EmptyDict]

\* ret: op names the operation; phase is "running" between the start and the
\* return of a dispatching process_all_jobs; raised names the exception the
\* call raised (NONE if it returned); counts is the returned histogram;
\* dispatched lists the jobs the call submitted to the pool; report is the
\* content of the file export_job_report wrote.
Ret(op, phase, args, raised, counts, dispatched) ==
  [op |-> op, phase |-> phase, args |-> args, raised |-> raised,
   counts |-> counts, dispatched |-> dispatched, report |-> NoReport]

\* -------------------------------------------------------------------- Init
\* WorkflowOrchestrator.__init__: no jobs; output directories just created.
Init ==
  /\ heap = <<>>
  /\ jobs = <<>>
  /\ disk = [s \in Stems |-> NoAudio]
  /\ config \in [max_concurrent_jobs : WorkerCounts, resume_on_failure : BOOLEAN]
  /\ pc = "idle"
  /\ tasks = <<>>
  /\ ret = Ret("__init__", "returned", NoArgs, NONE, ZeroCounts, <<>>)

\* ----------------------------------------------------------------- add_job
\* an id made of the base name alone
GeneratedJobId_stem_only(audio_path, n) == audio_path.stem

\* f"{audio_path.stem}_{len(self.jobs)}"
GeneratedJobId(audio_path, n) == audio_path.stem \o "_" \o ToString(n)

\* [p for p in platforms if p.lower() not in supported_platforms]
invalid_platforms(platforms) ==
  SelectSeq(platforms, LAMBDA p : Lower(p) \notin list_supported_platforms)

\* add_job without the test of the image path
add_job_raises_no_image_check(audio_file, image_file, platforms) ==
  IF ~audio_file.exists THEN "FileNotFoundError"
  ELSE IF invalid_platforms(platforms) # <<>> THEN "ValueError"
  ELSE NONE

\* The exception add_job raises for these arguments, NONE if it raises none.
add_job_raises(audio_file, image_file, platforms) ==
  IF ~audio_file.exists THEN "FileNotFoundError"
  ELSE IF ~image_file.exists THEN "FileNotFoundError"
  ELSE IF invalid_platforms(platforms) # <<>> THEN "ValueError"
  ELSE NONE

\* ProcessingJob(job_id, audio_file, image_file, platforms) with its defaults
ProcessingJob(job_id, audio_file, image_file, platforms) ==
  [job_id |-> job_id, audio_file |-> audio_file, image_file |-> image_file,
   platforms |-> platforms, status |-> PENDING, output_files |-> EmptyDict,
   error_message |-> NONE]

add_job(audio_file, image_file, platforms, job_id) ==
  /\ pc = "idle"
  /\ LET args == Call(audio_file, image_file, platforms, job_id)
         raised == add_job_raises(audio_file, image_file, platforms)
         id == IF job_id = NONE THEN GeneratedJobId(audio_file, Len(jobs)) ELSE job_id
         job == ProcessingJob(id, audio_file, image_file,
                              [i \in DOMAIN platforms |-> Lower(platforms[i])])
     IN IF raised # NONE
        THEN /\ ret' = Ret("add_job", "returned", args, raised, ZeroCounts, <<>>)
             /\ UNCHANGED <<heap, jobs>>
        ELSE /\ Len(heap) < MaxJobs
             /\ heap' = Append(heap, job)
             /\ jobs' = Append(jobs, Len(heap) + 1)
             /\ ret' = Ret("add_job", "returned", args, NONE, ZeroCounts, <<>>)
  /\ UNCHANGED <<disk, config, pc, tasks>>

\* -------------------------------------------------------------- clear_jobs
\* self.jobs.clear(); the job objects are no longer referenced, the files on
\* disk stay.
clear_jobs ==
  /\ pc = "idle"
  /\ jobs' = <<>>
  /\ heap' = <<>>
  /\ ret' = Ret("clear_jobs", "returned", NoArgs, NONE, ZeroCounts, <<>>)
  /\ UNCHANGED <<disk, config, pc, tasks>>

\* -------------------------------------------------- video/generation.py
\* aspect_ratio.value.replace(":", "x")
ratio_suffix(ratio) ==
  CASE ratio = "1:1"  -> "1x1"
    [] ratio = "16:9" -> "16x9"
    [] ratio = "9:16" -> "9x16"

\* The create_video calls of create_multi_platform_videos, in call order: one
\* per platform config in the list and per aspect ratio of that config.
RECURSIVE Renditions(_)
Renditions(platforms) ==
  IF platforms = <<>> THEN <<>>
  ELSE LET c == Head(platforms)
       IN [i \in DOMAIN c.aspect_ratios |->
             [name |-> c.name, aspect_ratio |-> c.aspect_ratios[i]]]
          \o Renditions(Tail(platforms))

\* key = f"{platform_config.name}_{aspect_ratio.value}"
RenditionKey(r) == r.name \o "_" \o r.aspect_ratio

\* output_dir / platform_name / f"{base_filename}_{platform_name}_{ratio_suffix}.mp4"
OutputPath(output_dir, base_filename, r) ==
  LET platform_name == Lower(r.name)
  IN output_dir \o "/" \o platform_name \o "/" \o base_filename \o "_"
       \o platform_name \o "_" \o ratio_suffix(r.aspect_ratio) \o ".mp4"

\* The dict create_multi_platform_videos returns when its i-th create_video
\* call returns success[i]: results[key] is assigned once per call, so a key
\* holds the value of the last call that wrote it.
create_multi_platform_videos(output_dir, platforms, base_filename, success) ==
  LET calls == Renditions(platforms)
      keys == {RenditionKey(calls[i]) : i \in DOMAIN calls}
      last(k) == CHOOSE i \in DOMAIN calls :
                   /\ RenditionKey(calls[i]) = k
                   /\ \A j \in DOMAIN calls : RenditionKey(calls[j]) = k => j <= i
  IN [k \in keys |->
        IF success[last(k)] THEN OutputPath(output_dir, base_filename, calls[last(k)])
        ELSE NONE]

\* The keys of the dict in insertion order (a dict keeps the position of a
\* key's first assignment).
RECURSIVE KeyOrder(_)
KeyOrder(calls) ==
  IF calls = <<>> THEN <<>>
  ELSE LET front == KeyOrder(SubSeq(calls, 1, Len(calls) - 1))
           k == RenditionKey(calls[Len(calls)])
       IN IF k \in Range(front) THEN front ELSE Append(front, k)

\* repr() of a list of strings
RECURSIVE ReprItems(_)
ReprItems(l) ==
  IF l = <<>> THEN ""
  ELSE IF Len(l) = 1 THEN "'" \o l[1] \o "'"
  ELSE "'" \o l[1] \o "', " \o ReprItems(Tail(l))

ReprList(l) == "[" \o ReprItems(l) \o "]"

\* --------------------------------------------------- _process_single_job
\* self.mastered_audio_dir / f"{job.audio_file.stem}_mastered.wav": the
\* artifact is named by the base name of the audio file alone.
mastered_audio_path(job) == job.audio_file.stem

\* output_dir=self.videos_dir / job.job_id
video_output_dir(job) == "videos/" \o job.job_id

mastered_exists(job) == disk[mastered_audio_path(job)] # NoAudio

\* the work items a pool thread is executing ("encoding" and "cleanup" are
\* the steps inside create_video, where these are modelled one by one)
running ==
  {i \in DOMAIN tasks : tasks[i].st \in {"mastering", "rendering", "encoding", "cleanup"}}

\* a pool sized by the number of submitted jobs instead of max_concurrent_jobs
worker_available_per_job == Cardinality(running) < Len(tasks)

\* A pool thread may take the next work item: the executor starts at most
\* max_workers threads.
worker_available == Cardinality(running) < config.max_concurrent_jobs

SetTask(i, st) == [tasks EXCEPT ![i].st = st]

\* a resume test that ignores the artifact: mastering is run in every case
needs_mastering_always(job) == TRUE

\* if not mastered_audio_path.exists() or not self.config.resume_on_failure
needs_mastering(job) == ~mastered_exists(job) \/ ~config.resume_on_failure

\* a pool whose threads take any waiting work item
next_work_item_any(i) == tasks[i].st = "queued"

\* a pool that runs the first submitted work item and leaves the rest queued
next_work_item_first_only(i) == tasks[i].st = "queued" /\ i = 1

\* The work queue of the executor is first in, first out: the item a free
\* thread takes is the oldest one still waiting.
next_work_item(i) ==
  /\ tasks[i].st = "queued"
  /\ \A j \in 1..(i - 1) : tasks[j].st # "queued"

\* A worker takes the oldest queued work item and runs _process_single_job
\* up to its first blocking call: status = "processing", then the resume test.
worker_start(i) ==
  /\ pc = "collecting"
  /\ next_work_item(i)
  /\ worker_available
  /\ LET o == tasks[i].job
     IN /\ heap' = [heap EXCEPT ![o].status = PROCESSING]
        /\ tasks' = SetTask(i, IF needs_mastering(heap[o])
                               THEN "mastering" ELSE "rendering")
  /\ UNCHANGED <<jobs, disk, config, pc, ret>>

\* an except branch that records the message and leaves the status as it is
on_exception_keeps_status(job, e) == [job EXCEPT !.error_message = e]

\* except Exception as e: job.status = "failed"; job.error_message = str(e)
on_exception(job, e) == [job EXCEPT !.status = FAILED, !.error_message = e]

\* master_audio_file returns: True (the artifact is written), False, or it
\* raises (caught by the except of _process_single_job).  master_result
\* records the outcome of the call for the run.
master_audio(i, outcome) ==
  /\ tasks[i].st = "mastering"
  /\ LET o == tasks[i].job
         job == heap[o]
     IN CASE outcome = "ok" ->
               /\ disk' = [disk EXCEPT ![mastered_audio_path(job)] = job.audio_file]
               /\ tasks' = [tasks EXCEPT ![i].st = "rendering", ![i].master_calls = @ + 1,
                                         ![i].master_result = outcome]
               /\ UNCHANGED heap
          [] outcome = "fail" ->
               /\ heap' = [heap EXCEPT ![o].status = FAILED,
                                       ![o].error_message = "Audio mastering failed"]
               /\ tasks' = [tasks EXCEPT ![i].st = "done", ![i].master_calls = @ + 1,
                                         ![i].master_result = outcome]
               /\ UNCHANGED disk
          [] outcome = "raise" ->
               /\ heap' = [heap EXCEPT ![o] = on_exception(job, "OSError")]
               /\ tasks' = [tasks EXCEPT ![i].st = "done", ![i].master_calls = @ + 1,
                                         ![i].master_result = outcome]
               /\ UNCHANGED disk
  /\ UNCHANGED <<jobs, config, pc, ret>>

\* Step 2 and the result update: the create_video calls return success[..],
\* or create_multi_platform_videos raises before it returns a dict.  rendered
\* and render_success record for the run that the dict was returned and what
\* each create_video call returned.
render_videos(i, success, raises) ==
  /\ tasks[i].st = "rendering"
  /\ LET o == tasks[i].job
         job == heap[o]
         platform_configs == [n \in DOMAIN job.platforms |->
                                get_platform_config(job.platforms[n])]
         calls == Renditions(platform_configs)
         video_results == create_multi_platform_videos(
                            video_output_dir(job), platform_configs, job.job_id, success)
         failed_videos == SelectSeq(KeyOrder(calls), LAMBDA k : video_results[k] = NONE)
     IN /\ DOMAIN success = DOMAIN calls
        /\ IF raises
           THEN heap' = [heap EXCEPT ![o] = on_exception(job, "OSError")]
           ELSE IF failed_videos # <<>>
           THEN heap' = [heap EXCEPT ![o].output_files = video_results,
                           ![o].status = FAILED,
                           ![o].error_message =
                              "Failed to create videos: " \o ReprList(failed_videos)]
           ELSE heap' = [heap EXCEPT ![o].output_files = video_results,
                           ![o].status = COMPLETED]
        /\ tasks' = [tasks EXCEPT ![i].st = "done",
                       ![i].render_calls = IF raises THEN @ ELSE @ + Len(calls),
                       ![i].rendered = ~raises,
                       ![i].render_success = IF raises THEN <<>> ELSE success]
  /\ UNCHANGED <<jobs, disk, config, pc, ret>>

\* -------------------------------------------------------- process_all_jobs
\* a filter that also takes the jobs that failed
jobs_to_process_unfinished(h) ==
  SelectSeq(jobs, LAMBDA o : h[o].status \in {PENDING, FAILED})

\* [job for job in self.jobs if job.status == "pending"]
jobs_to_process(h) == SelectSeq(jobs, LAMBDA o : h[o].status = PENDING)

\* status_counts over self.jobs
status_counts(h, js) ==
  [s \in Statuses |-> Cardinality({i \in DOMAIN js : h[js[i]].status = s})]

\* The body of process_all_jobs on the heap h, up to the submission of the
\* work items (or to its return, if it submits none).
process_all_jobs_body(h, op) ==
  LET todo == jobs_to_process(h)
  IN /\ heap' = h
     /\ IF jobs = <<>>
        THEN /\ ret' = Ret(op, "returned", NoArgs, NONE, ZeroCounts, <<>>)
             /\ UNCHANGED <<pc, tasks>>
        ELSE IF todo = <<>>
        THEN /\ ret' = Ret(op, "returned", NoArgs, NONE, status_counts(h, jobs), <<>>)
             /\ UNCHANGED <<pc, tasks>>
        ELSE /\ tasks' = [i \in DOMAIN todo |->
                            [job |-> todo[i], st |-> "queued", collected |-> FALSE,
                             master_calls |-> 0, master_result |-> NONE,
                             render_calls |-> 0, rendered |-> FALSE,
                             render_success |-> <<>>]]
             /\ pc' = "collecting"
             /\ ret' = Ret(op, "running", NoArgs, NONE, ZeroCounts, todo)
     /\ UNCHANGED <<jobs, disk, config>>

process_all_jobs ==
  /\ pc = "idle"
  /\ process_all_jobs_body(heap, "process_all_jobs")

\* self.jobs.index(job): the positions holding the object or an object equal
\* to it (ProcessingJob is a dataclass: == compares the fields); index returns
\* the first of them and raises ValueError if there is none.
jobs_index_candidates(o) == {i \in DOMAIN jobs : heap[jobs[i]] = heap[o]}

jobs_index(o) ==
  CHOOSE i \in jobs_index_candidates(o) : \A j \in jobs_index_candidates(o) : i <= j

\* One iteration of the as_completed loop: a finished future is yielded and
\* its job written back at the index found for it; the except branch marks
\* the job failed if index raised.
collect_result(i) ==
  /\ pc = "collecting"
  /\ tasks[i].st = "done"
  /\ ~tasks[i].collected
  /\ LET o == tasks[i].job
     IN IF jobs_index_candidates(o) # {}
        THEN /\ jobs' = [jobs EXCEPT ![jobs_index(o)] = o]
             /\ UNCHANGED heap
        ELSE /\ heap' = [heap EXCEPT ![o].status = FAILED,
                           ![o].error_message = "Unexpected error: ValueError"]
             /\ UNCHANGED jobs
  /\ tasks' = [tasks EXCEPT ![i].collected = TRUE]
  /\ UNCHANGED <<disk, config, pc, ret>>

\* a return after the first collected result, without waiting for the rest
process_all_jobs_return_first_completed ==
  /\ pc = "collecting"
  /\ \E i \in DOMAIN tasks : tasks[i].collected
  /\ ret' = Ret(ret.op, "returned", NoArgs, NONE, status_counts(heap, jobs), ret.dispatched)
  /\ pc' = "idle"
  /\ tasks' = <<>>
  /\ UNCHANGED <<heap, jobs, disk, config>>

\* The loop and the with-block are over: the summary is computed and returned.
process_all_jobs_return ==
  /\ pc = "collecting"
  /\ \A i \in DOMAIN tasks : tasks[i].collected
  /\ ret' = Ret(ret.op, "returned", NoArgs, NONE, status_counts(heap, jobs), ret.dispatched)
  /\ pc' = "idle"
  /\ tasks' = <<>>
  /\ UNCHANGED <<heap, jobs, disk, config>>

\* ------------------------------------------------------- retry_failed_jobs
get_failed_jobs == SelectSeq(jobs, LAMBDA o : heap[o].status = FAILED)

reset_job(job) == [job EXCEPT !.status = PENDING, !.error_message = NONE]

retry_failed_jobs ==
  /\ pc = "idle"
  /\ LET failed_jobs == Range(get_failed_jobs)
         h == [o \in DOMAIN heap |->
                 IF o \in failed_jobs THEN reset_job(heap[o]) ELSE heap[o]]
     IN process_all_jobs_body(h, "retry_failed_jobs")

\* ------------------------------------------------------- export_job_report
\* a summary whose total counts the finished jobs only
report_summary_finished_only(h, js) ==
  LET n(st) == Cardinality({i \in DOMAIN js : h[js[i]].status = st})
  IN [total_jobs |-> n(COMPLETED) + n(FAILED), completed |-> n(COMPLETED),
      failed |-> n(FAILED), pending |-> n(PENDING)]

\* report["summary"]: len(self.jobs) and the three list comprehensions
report_summary(h, js) ==
  LET n(st) == Cardinality({i \in DOMAIN js : h[js[i]].status = st})
  IN [total_jobs |-> Len(js), completed |-> n(COMPLETED),
      failed |-> n(FAILED), pending |-> n(PENDING)]

\* json.dump of an int: its decimal digits
json_dump_int(n) == ToString(n)

\* json.dump(report, f): "jobs" is [asdict(job) for job in self.jobs] (a copy
\* of each job's fields, strings and null as they are), the counts of
\* "summary" are written as numbers
json_dump(h, js) ==
  LET summary == report_summary(h, js)
  IN [jobs |-> [i \in DOMAIN js |-> h[js[i]]],
      summary |-> [k \in DOMAIN summary |-> json_dump_int(summary[k])]]

\* The report is built from self.jobs and written; nothing else changes.
export_job_report ==
  /\ pc = "idle"
  /\ ret' = [Ret("export_job_report", "returned", NoArgs, NONE, ZeroCounts, <<>>)
               EXCEPT !.report = json_dump(heap, jobs)]
  /\ UNCHANGED <<heap, jobs, disk, config, pc, tasks>>

\* ------------------------------------------------- cli.py: batch_process
\* What audio_dir.glob(audio_pattern) lists: nothing, one file, two files.
DirListings == {<<>>, <<AudioIn1>>, <<AudioIn1, AudioB>>}

\* --platforms: click.Choice admits the identifiers of the registry only
CliPlatforms == {<<"tiktok">>, <<"twitter">>}

\* --report-file: omitted or given
ReportFiles == {NONE, "report.json"}

\* The loop of add_batch_jobs: one add_job per listed file, in listing order,
\* each id generated from the length of self.jobs at its add_job call
add_batch_jobs_loop(audio_files, image_file, platforms) ==
  /\ heap' = heap \o [i \in DOMAIN audio_files |->
                         ProcessingJob(GeneratedJobId(audio_files[i], Len(jobs) + i - 1),
                                       audio_files[i], image_file,
                                       [n \in DOMAIN platforms |-> Lower(platforms[n])])]
  /\ jobs' = jobs \o [i \in DOMAIN audio_files |-> Len(heap) + i]

\* An audio directory: whether it exists and what glob(audio_pattern) lists.
AudioDir(exists, files) == [exists |-> exists, files |-> files]

\* The add_batch_jobs calls a caller makes: two files, no file (also with an
\* unknown platform and with a missing image), a missing directory, a missing
\* image, and an unknown platform with files listed.
AddBatchJobsCalls ==
  { [audio_dir |-> AudioDir(TRUE, <<AudioIn1, AudioB>>), image_file |-> Cover,
     platforms |-> <<"TikTok">>],
    [audio_dir |-> AudioDir(TRUE, <<>>), image_file |-> Cover,
     platforms |-> <<"vimeo">>],
    [audio_dir |-> AudioDir(TRUE, <<>>), image_file |-> NoCover,
     platforms |-> <<"TikTok">>],
    [audio_dir |-> AudioDir(FALSE, <<>>), image_file |-> Cover,
     platforms |-> <<"TikTok">>],
    [audio_dir |-> AudioDir(TRUE, <<AudioIn1, AudioB>>), image_file |-> NoCover,
     platforms |-> <<"TikTok">>],
    [audio_dir |-> AudioDir(TRUE, <<AudioIn1, AudioB>>), image_file |-> Cover,
     platforms |-> <<"TikTok", "vimeo">>] }

\* add_batch_jobs without the test of the directory
add_batch_jobs_raises_no_dir_check(audio_dir, image_file, platforms) ==
  IF ~image_file.exists THEN "FileNotFoundError"
  ELSE IF audio_dir.files = <<>> THEN NONE
  ELSE add_job_raises(audio_dir.files[1], image_file, platforms)

\* The exception add_batch_jobs raises, NONE if it raises none: its own two
\* tests, then (if files are listed) what the first add_job raises.
add_batch_jobs_raises(audio_dir, image_file, platforms) ==
  IF ~audio_dir.exists THEN "FileNotFoundError"
  ELSE IF ~image_file.exists THEN "FileNotFoundError"
  ELSE IF audio_dir.files = <<>> THEN NONE
  ELSE add_job_raises(audio_dir.files[1], image_file, platforms)

\* ret of add_batch_jobs: its arguments and the list it returned
BatchRet(audio_dir, image_file, platforms, raised, returned) ==
  [Ret("add_batch_jobs", "returned", NoArgs, raised, ZeroCounts, <<>>)
     EXCEPT !.args = [audio_dir |-> audio_dir, image_file |-> image_file,
                      platforms |-> platforms, returned |-> returned]]

add_batch_jobs(audio_dir, image_file, platforms) ==
  /\ pc = "idle"
  /\ LET raised == add_batch_jobs_raises(audio_dir, image_file, platforms)
     IN IF raised # NONE
        THEN /\ ret' = BatchRet(audio_dir, image_file, platforms, raised, <<>>)
             /\ UNCHANGED <<heap, jobs>>
        ELSE /\ Len(heap) + Len(audio_dir.files) <= MaxJobs
             /\ add_batch_jobs_loop(audio_dir.files, image_file, platforms)
             /\ ret' = BatchRet(audio_dir, image_file, platforms, NONE,
                                [i \in DOMAIN audio_dir.files |-> Len(heap) + i])
  /\ UNCHANGED <<disk, config, pc, tasks>>

\* an exit code that is non-zero only if no job completed
batch_process_exit_code_none_completed(counts) ==
  IF counts[COMPLETED] = 0 THEN "SystemExit(1)" ELSE NONE

\* if status_counts.get("failed", 0) > 0: sys.exit(1); NONE is the normal
\* return of the command (exit code 0)
batch_process_exit_code(counts) ==
  IF counts[FAILED] > 0 THEN "SystemExit(1)" ELSE NONE

\* ret of the command: args holds the --report-file option
CliRet(phase, report_file, raised) ==
  [Ret("batch_process", phase, NoArgs, raised, ZeroCounts, <<>>)
     EXCEPT !.args = [report_file |-> report_file]]

\* batch_process up to the call of process_all_jobs: the image is validated,
\* the audio files are looked up, and the jobs are added to a new orchestrator.
batch_process_add_jobs(audio_files, image_file, platforms) ==
  /\ pc = "idle"
  /\ ret.op = "__init__"
  /\ Len(audio_files) <= MaxJobs
  /\ IF ~image_file.exists \/ audio_files = <<>>
     THEN /\ ret' = CliRet("returned", NONE, "SystemExit(1)")
          /\ UNCHANGED <<heap, jobs>>
     ELSE /\ add_batch_jobs_loop(audio_files, image_file, platforms)
          /\ ret' = CliRet("running", NONE, NONE)
  /\ UNCHANGED <<disk, config, pc, tasks>>

\* status_counts = orchestrator.process_all_jobs()
batch_process_process_all_jobs ==
  /\ ret.op = "batch_process"
  /\ ret.phase = "running"
  /\ process_all_jobs

\* batch_process after process_all_jobs returned: the report is exported if
\* --report-file was given, then the exit code is decided from the histogram.
batch_process_exit(report_file) ==
  /\ pc = "idle"
  /\ ret.op = "process_all_jobs"
  /\ ret.phase = "returned"
  /\ ret' = [CliRet("returned", report_file, batch_process_exit_code(ret.counts))
               EXCEPT !.report = IF report_file # NONE THEN json_dump(heap, jobs)
                                 ELSE NoReport]
  /\ UNCHANGED <<heap, jobs, disk, config, pc, tasks>>

\* -------------------------------------------------------------------- Next
MasterOutcomes == {"ok", "fail", "raise"}

\* the outcomes of the create_video calls of the job of work item i
RenderOutcomes(i) ==
  LET job == heap[tasks[i].job]
  IN [DOMAIN Renditions([n \in DOMAIN job.platforms |->
                           get_platform_config(job.platforms[n])]) -> BOOLEAN]

Next ==
  \/ \E c \in AddJobCalls :
       add_job(c.audio_file, c.image_file, c.platforms, c.job_id)
  \/ \E c \in AddBatchJobsCalls :
       add_batch_jobs(c.audio_dir, c.image_file, c.platforms)
  \/ clear_jobs
  \/ process_all_jobs
  \/ retry_failed_jobs
  \/ \E i \in DOMAIN tasks : worker_start(i)
  \/ \E i \in DOMAIN tasks, outcome \in MasterOutcomes : master_audio(i, outcome)
  \/ \E i \in DOMAIN tasks, raises \in BOOLEAN :
       \E success \in RenderOutcomes(i) : render_videos(i, success, raises)
  \/ \E i \in DOMAIN tasks : collect_result(i)
  \/ process_all_jobs_return
  \/ export_job_report

Spec == Init /\ [][Next]_vars

\* The batch-process command: one run of cli.py's batch_process on a new
\* orchestrator, with the pool workers of its process_all_jobs call.
NextCli ==
  \/ \E audio_files \in DirListings, image_file \in {Cover, NoCover},
        platforms \in CliPlatforms :
       batch_process_add_jobs(audio_files, image_file, platforms)
  \/ batch_process_process_all_jobs
  \/ \E i \in DOMAIN tasks : worker_start(i)
  \/ \E i \in DOMAIN tasks, outcome \in MasterOutcomes : master_audio(i, outcome)
  \/ \E i \in DOMAIN tasks, raises \in BOOLEAN :
       \E success \in RenderOutcomes(i) : render_videos(i, success, raises)
  \/ \E i \in DOMAIN tasks : collect_result(i)
  \/ process_all_jobs_return
  \/ \E report_file \in ReportFiles : batch_process_exit(report_file)

SpecCli == Init /\ [][NextCli]_vars

\* One process_all_jobs call on a new orchestrator with an empty output
\* directory, under a fixed behaviour of the stages: master_audio_file
\* succeeds on every audio file except those of directory in2, where it
\* returns False, and every create_video call succeeds.  The scheduling of
\* the workers and the completion order stay free.
FixedMasterOutcome(audio_file) == IF audio_file.dir = "in2" THEN "fail" ELSE "ok"

FixedRenderOutcome(i) ==
  LET job == heap[tasks[i].job]
  IN [n \in DOMAIN Renditions([k \in DOMAIN job.platforms |->
                                 get_platform_config(job.platforms[k])]) |-> TRUE]

NextFixedStages ==
  \/ \E c \in AddJobCalls :
       /\ ret.op \in {"__init__", "add_job"}
       /\ add_job_raises(c.audio_file, c.image_file, c.platforms) = NONE
       /\ add_job(c.audio_file, c.image_file, c.platforms, c.job_id)
  \/ (ret.op = "add_job" /\ process_all_jobs)
  \/ \E i \in DOMAIN tasks : worker_start(i)
  \/ \E i \in DOMAIN tasks :
       master_audio(i, FixedMasterOutcome(heap[tasks[i].job].audio_file))
  \/ \E i \in DOMAIN tasks : render_videos(i, FixedRenderOutcome(i), FALSE)
  \/ \E i \in DOMAIN tasks : collect_result(i)
  \/ process_all_jobs_return

SpecFixedStages == Init /\ [][NextFixedStages]_vars

\* export_job_report called on another thread while process_all_jobs is
\* processing.  The dict literal of the report is evaluated entry by entry:
\* "jobs" and "total_jobs" first, then one list comprehension over self.jobs
\* for each of "completed", "failed" and "pending"; the workers run between
\* these reads.  ret.report holds the report as far as it is built.
SummaryKeys == <<"total_jobs", "completed", "failed", "pending">>

StatusOfKey(key) ==
  CASE key = "completed" -> COMPLETED
    [] key = "failed"    -> FAILED
    [] key = "pending"   -> PENDING

\* the report is written: all four counts are there
ReportComplete(report) == DOMAIN report.summary = Range(SummaryKeys)

\* "jobs": [asdict(job) for job in self.jobs], "total_jobs": len(self.jobs)
export_read_jobs ==
  /\ pc = "collecting"
  /\ DOMAIN ret.report.summary = {} \/ ReportComplete(ret.report)
  /\ ret' = [ret EXCEPT !.report =
               [jobs |-> [i \in DOMAIN jobs |-> heap[jobs[i]]],
                summary |-> [k \in {"total_jobs"} |-> json_dump_int(Len(jobs))]]]
  /\ UNCHANGED <<heap, jobs, disk, config, pc, tasks>>

\* len([j for j in self.jobs if j.status == ...]): the n-th entry of the
\* summary, read from the jobs as they are now
export_count_status(n) ==
  /\ pc = "collecting"
  /\ DOMAIN ret.report.summary = {SummaryKeys[k] : k \in 1..(n - 1)}
  /\ LET key == SummaryKeys[n]
         count == Cardinality({i \in DOMAIN jobs :
                                 heap[jobs[i]].status = StatusOfKey(key)})
     IN ret' = [ret EXCEPT !.report.summary =
                  [k \in DOMAIN @ \cup {key} |->
                     IF k = key THEN json_dump_int(count) ELSE @[k]]]
  /\ UNCHANGED <<heap, jobs, disk, config, pc, tasks>>

NextReporter ==
  \/ \E c \in AddJobCalls :
       /\ add_job_raises(c.audio_file, c.image_file, c.platforms) = NONE
       /\ add_job(c.audio_file, c.image_file, c.platforms, c.job_id)
  \/ process_all_jobs
  \/ \E i \in DOMAIN tasks : worker_start(i)
  \/ \E i \in DOMAIN tasks, outcome \in MasterOutcomes : master_audio(i, outcome)
  \/ \E i \in DOMAIN tasks, raises \in BOOLEAN :
       \E success \in RenderOutcomes(i) : render_videos(i, success, raises)
  \/ \E i \in DOMAIN tasks : collect_result(i)
  \/ process_all_jobs_return
  \/ export_read_jobs
  \/ \E n \in 2..Len(SummaryKeys) : export_count_status(n)

SpecReporter == Init /\ [][NextReporter]_vars

\* A second caller runs process_all_jobs while the first call is in its
\* as_completed loop.  Nothing in process_all_jobs excludes this: each call
\* filters self.jobs for itself and creates an executor of its own.  tasks
\* holds the work items of the first call, then those of the second; ret is
\* the first caller's.  The with-blocks of both calls are modelled as
\* ending together, in process_all_jobs_return.  The stage outcomes are
\* fixed per input, as in SpecFixedStages; the scheduling is free.
pool_of(i) == IF i <= Len(ret.dispatched) THEN 1 ELSE 2

second_call_started == Len(tasks) > Len(ret.dispatched)

\* jobs_to_process = [job for job in self.jobs if job.status == "pending"],
\* then executor.submit for each, by the second caller
second_caller_process_all_jobs ==
  /\ pc = "collecting"
  /\ ~second_call_started
  /\ LET todo == jobs_to_process(heap)
     IN /\ todo # <<>>
        /\ tasks' = tasks \o [i \in DOMAIN todo |->
                                [job |-> todo[i], st |-> "queued", collected |-> FALSE,
                                 master_calls |-> 0, master_result |-> NONE,
                                 render_calls |-> 0, rendered |-> FALSE,
                                 render_success |-> <<>>]]
  /\ UNCHANGED <<heap, jobs, disk, config, pc, ret>>

\* worker_start with one executor per call: the queue order and the thread
\* limit are those of the executor the work item was submitted to
pool_worker_start(i) ==
  /\ pc = "collecting"
  /\ tasks[i].st = "queued"
  /\ \A j \in 1..(i - 1) : pool_of(j) = pool_of(i) => tasks[j].st # "queued"
  /\ Cardinality({j \in running : pool_of(j) = pool_of(i)}) < config.max_concurrent_jobs
  /\ LET o == tasks[i].job
     IN /\ heap' = [heap EXCEPT ![o].status = PROCESSING]
        /\ tasks' = SetTask(i, IF needs_mastering(heap[o])
                               THEN "mastering" ELSE "rendering")
  /\ UNCHANGED <<jobs, disk, config, pc, ret>>

NextTwoCallers ==
  \/ \E c \in AddJobCalls :
       /\ ret.op \in {"__init__", "add_job"}
       /\ add_job_raises(c.audio_file, c.image_file, c.platforms) = NONE
       /\ add_job(c.audio_file, c.image_file, c.platforms, c.job_id)
  \/ (ret.op = "add_job" /\ process_all_jobs)
  \/ second_caller_process_all_jobs
  \/ \E i \in DOMAIN tasks : pool_worker_start(i)
  \/ \E i \in DOMAIN tasks :
       master_audio(i, FixedMasterOutcome(heap[tasks[i].job].audio_file))
  \/ \E i \in DOMAIN tasks : render_videos(i, FixedRenderOutcome(i), FALSE)
  \/ \E i \in DOMAIN tasks : collect_result(i)
  \/ process_all_jobs_return

SpecTwoCallers == Init /\ [][NextTwoCallers]_vars

\* create_video in its steps.  The orchestrator has one VideoGenerator and
\* one temp_dir for all workers; disk holds, next to the mastered audio, the
\* files of temp_dir: the image a prepared-image file was made from, NoAudio
\* if the file is absent.  ffmpeg succeeds if its inputs are there.
\* str(platform_config.recommended_resolutions[aspect_ratio])
recommended_resolution(r) ==
  CASE r.aspect_ratio = "1:1"  -> "1080x1080"
    [] r.aspect_ratio = "9:16" -> "1080x1920"
    [] r.aspect_ratio = "16:9" -> IF r.name = "Twitter" THEN "1280x720" ELSE "1920x1080"

\* self.temp_dir / f"processed_{image_path.stem}_{target_resolution}.png"
temp_image_path(image_path, r) ==
  "processed_" \o image_path.stem \o "_" \o recommended_resolution(r) \o ".png"

TempPaths ==
  {temp_image_path(Cover, r) :
     r \in UNION {Range(Renditions(<<PLATFORM_CONFIGS[p]>>)) : p \in DOMAIN PLATFORM_CONFIGS}}

\* the create_video calls of the job of work item i, and the one in progress
create_video_calls(i) ==
  LET job == heap[tasks[i].job]
  IN Renditions([n \in DOMAIN job.platforms |-> get_platform_config(job.platforms[n])])

create_video_calls_done(i) == Len(tasks[i].render_success)

\* processed_image = self._prepare_image_for_platform(...): img.save
prepare_image(i) ==
  /\ tasks[i].st = "rendering"
  /\ create_video_calls_done(i) < Len(create_video_calls(i))
  /\ LET image_path == heap[tasks[i].job].image_file
         r == create_video_calls(i)[create_video_calls_done(i) + 1]
     IN disk' = [disk EXCEPT ![temp_image_path(image_path, r)] = image_path]
  /\ tasks' = SetTask(i, "encoding")
  /\ UNCHANGED <<heap, jobs, config, pc, ret>>

\* subprocess.run(cmd): ffmpeg reads the prepared image; returncode == 0 is
\* the result of create_video
run_ffmpeg(i) ==
  /\ tasks[i].st = "encoding"
  /\ LET image_path == heap[tasks[i].job].image_file
         r == create_video_calls(i)[create_video_calls_done(i) + 1]
         returncode_0 == disk[temp_image_path(image_path, r)] # NoAudio
     IN tasks' = [tasks EXCEPT ![i].st = "cleanup",
                               ![i].render_success = Append(@, returncode_0)]
  /\ UNCHANGED <<heap, jobs, disk, config, pc, ret>>

\* finally: if processed_image.exists(): processed_image.unlink()
cleanup_temp_image(i) ==
  /\ tasks[i].st = "cleanup"
  /\ LET image_path == heap[tasks[i].job].image_file
         r == create_video_calls(i)[create_video_calls_done(i)]
     IN disk' = [disk EXCEPT ![temp_image_path(image_path, r)] = NoAudio]
  /\ tasks' = SetTask(i, "rendering")
  /\ UNCHANGED <<heap, jobs, config, pc, ret>>

\* all create_video calls of the job have returned: the dict is built and
\* the job updated
render_videos_return(i) ==
  /\ create_video_calls_done(i) = Len(create_video_calls(i))
  /\ render_videos(i, tasks[i].render_success, FALSE)

InitTempFiles ==
  /\ heap = <<>>
  /\ jobs = <<>>
  /\ disk = [s \in Stems \cup TempPaths |-> NoAudio]
  /\ config \in [max_concurrent_jobs : WorkerCounts, resume_on_failure : BOOLEAN]
  /\ pc = "idle"
  /\ tasks = <<>>
  /\ ret = Ret("__init__", "returned", NoArgs, NONE, ZeroCounts, <<>>)

NextTempFiles ==
  \/ \E c \in AddJobCalls :
       /\ ret.op \in {"__init__", "add_job"}
       /\ add_job_raises(c.audio_file, c.image_file, c.platforms) = NONE
       /\ add_job(c.audio_file, c.image_file, c.platforms, c.job_id)
  \/ (ret.op = "add_job" /\ process_all_jobs)
  \/ \E i \in DOMAIN tasks : worker_start(i)
  \/ \E i \in DOMAIN tasks, outcome \in MasterOutcomes : master_audio(i, outcome)
  \/ \E i \in DOMAIN tasks : prepare_image(i)
  \/ \E i \in DOMAIN tasks : run_ffmpeg(i)
  \/ \E i \in DOMAIN tasks : cleanup_temp_image(i)
  \/ \E i \in DOMAIN tasks : render_videos_return(i)
  \/ \E i \in DOMAIN tasks : collect_result(i)
  \/ process_all_jobs_return

SpecTempFiles == InitTempFiles /\ [][NextTempFiles]_vars

\* The processing calls of one caller under fair scheduling: a pool thread
\* that can take a work item does so, every stage invocation that was started
\* returns, the as_completed loop of the caller thread goes on and the call
\* returns when the loop is over.  The caller is not obliged to call.
NextProcessing ==
  \/ \E c \in AddJobCalls :
       /\ add_job_raises(c.audio_file, c.image_file, c.platforms) = NONE
       /\ add_job(c.audio_file, c.image_file, c.platforms, c.job_id)
  \/ process_all_jobs
  \/ \E i \in DOMAIN tasks : worker_start(i)
  \/ \E i \in DOMAIN tasks, outcome \in MasterOutcomes : master_audio(i, outcome)
  \/ \E i \in DOMAIN tasks, raises \in BOOLEAN :
       \E success \in RenderOutcomes(i) : render_videos(i, success, raises)
  \/ \E i \in DOMAIN tasks : collect_result(i)
  \/ process_all_jobs_return

\* a step of a pool thread or of the caller's as_completed loop
ProcessingStep ==
  \/ \E i \in DOMAIN tasks : worker_start(i)
  \/ \E i \in DOMAIN tasks, outcome \in MasterOutcomes : master_audio(i, outcome)
  \/ \E i \in DOMAIN tasks, raises \in BOOLEAN :
       \E success \in RenderOutcomes(i) : render_videos(i, success, raises)
  \/ \E i \in DOMAIN tasks : collect_result(i)
  \/ process_all_jobs_return

\* As long as some thread of the call can take a step, one of them does.
\* This is less than fairness for each thread on its own, which the
\* operating system's scheduler gives.
FairScheduling == WF_vars(ProcessingStep)

SpecFair == Init /\ [][NextProcessing]_vars /\ FairScheduling

\* ================================================================== claims
Terminal == {COMPLETED, FAILED}
ProcessOps == {"process_all_jobs", "retry_failed_jobs"}
Returned(ops) == ret.phase = "returned" /\ ret.op \in ops
TasksOn(o) == {i \in DOMAIN tasks : tasks[i].job = o}

\* C1: within one process_all_jobs call every job of the snapshot is
\* submitted to the pool exactly once, and no two workers run
\* _process_single_job on the same job at the same time.
C1_SubmittedOnceNoSharedJob ==
  /\ \A o \in Range(ret.dispatched) : pc = "collecting" => Cardinality(TasksOn(o)) = 1
  /\ \A i, j \in running : i # j => tasks[i].job # tasks[j].job

LegalStatusChange(from, to, in_retry) ==
  \/ from = to
  \/ from = PENDING /\ to = PROCESSING
  \/ from = PROCESSING /\ to \in Terminal
  \/ from = FAILED /\ to = PENDING /\ in_retry

C3_OnlyLegalStatusChanges ==
  [][\A o \in DOMAIN heap : o \in DOMAIN heap' =>
       LegalStatusChange(heap[o].status, heap'[o].status,
                         pc = "idle" /\ ret'.op = "retry_failed_jobs")]_vars

\* C4: for every job in the collection, error_message is non-null if and
\* only if the job's status is Failed.
C4_ErrorMessageIffFailed ==
  \A i \in DOMAIN jobs :
    (heap[jobs[i]].error_message # NONE) <=> (heap[jobs[i]].status = FAILED)

\* C5: every Pending job, and every Processing job still in its mastering
\* step, has empty output_files (jobs reset by retry included).
C5_OutputsEmptyBeforeRender ==
  /\ \A i \in DOMAIN jobs :
       heap[jobs[i]].status = PENDING => DOMAIN heap[jobs[i]].output_files = {}
  /\ \A t \in DOMAIN tasks :
       tasks[t].st = "mastering" => DOMAIN heap[tasks[t].job].output_files = {}

\* C6: every job in the collection has a non-empty platform list whose
\* elements are all identifiers of the platform catalog.
C6_PlatformsNonEmptyAndKnown ==
  \A i \in DOMAIN jobs :
    /\ heap[jobs[i]].platforms # <<>>
    /\ \A p \in Range(heap[jobs[i]].platforms) : p \in DOMAIN PLATFORM_CONFIGS

\* C7: no two jobs in the collection have the same job_id.
C7_JobIdsUnique ==
  \A i, j \in DOMAIN jobs : i # j => heap[jobs[i]].job_id # heap[jobs[j]].job_id

\* C8: an add_job call whose audio or image path does not exist, or whose
\* platform list holds an identifier that is not in the catalog (compared
\* case-insensitively), raises and leaves the job collection as it was.
BadAddJobArgs(args) ==
  \/ ~args.audio_file.exists
  \/ ~args.image_file.exists
  \/ \E p \in Range(args.platforms) : Lower(p) \notin DOMAIN PLATFORM_CONFIGS

C8_BadAddJobRaisesAndAddsNothing ==
  [][(ret'.op = "add_job" /\ BadAddJobArgs(ret'.args)) =>
       (ret'.raised # NONE /\ jobs' = jobs /\ heap' = heap)]_vars

\* C8 witness: add_job has raised for an unknown platform (listed after a
\* known one in mixed case) on a collection that already holds a job.
C8_Witness ==
  /\ ret.op = "add_job"
  /\ ret.raised = "ValueError"
  /\ ret.args.platforms = <<"TikTok", "vimeo">>
  /\ Len(jobs) >= 1

\* C9: when process_all_jobs returns, every job it dispatched is Completed or
\* Failed, and the returned histogram counts every job of the collection:
\* each count is the number of jobs now in that status, and the four counts
\* sum to the number of jobs.
C9_ReturnsAfterAllTerminalWithFullHistogram ==
  Returned(ProcessOps) =>
    /\ \A o \in Range(ret.dispatched) : heap[o].status \in Terminal
    /\ \A s \in Statuses :
         ret.counts[s] = Cardinality({i \in DOMAIN jobs : heap[jobs[i]].status = s})
    /\ ret.counts[PENDING] + ret.counts[PROCESSING] + ret.counts[COMPLETED]
         + ret.counts[FAILED] = Len(jobs)

\* C9 witness: a call has returned that dispatched some but not all jobs of
\* the collection, and its histogram holds a completed and a failed job.
C9_Witness ==
  /\ Returned(ProcessOps)
  /\ ret.dispatched # <<>>
  /\ Len(ret.dispatched) < Len(jobs)
  /\ ret.counts[COMPLETED] >= 1
  /\ ret.counts[FAILED] >= 1

\* C10: a process_all_jobs call made when no job is Pending starts no worker,
\* invokes no stage, changes no job field and returns at once, with the
\* histogram of the call before it if that call was the previous operation.
NoPendingJob == \A i \in DOMAIN jobs : heap[jobs[i]].status # PENDING

C10_NoPendingCallDoesNothing ==
  [][(pc = "idle" /\ NoPendingJob /\ ret'.op = "process_all_jobs") =>
       /\ pc' = "idle"
       /\ tasks' = <<>>
       /\ ret'.phase = "returned"
       /\ ret'.dispatched = <<>>
       /\ UNCHANGED <<heap, jobs, disk>>
       /\ Returned(ProcessOps) => ret'.counts = ret.counts]_vars

\* C10 witness: process_all_jobs has returned without dispatching anything on
\* a collection that holds a Completed and a Failed job.
C10_Witness ==
  /\ Returned({"process_all_jobs"})
  /\ ret.dispatched = <<>>
  /\ \E i \in DOMAIN jobs : heap[jobs[i]].status = COMPLETED
  /\ \E i \in DOMAIN jobs : heap[jobs[i]].status = FAILED

\* C11: if the mastered artifact expected for a job exists and
\* resume_on_failure is true when the job's pipeline starts, the run goes
\* straight to rendering and never invokes mastering; otherwise the run
\* invokes mastering exactly once: the mastering step is entered only at the
\* start of a run, with no invocation counted yet, and leaving it counts one.
SameRun(i) == i \in DOMAIN tasks /\ i \in DOMAIN tasks' /\ tasks'[i].job = tasks[i].job

C11_ResumeSkipsMasteringElseMastersOnce ==
  [][\A i \in DOMAIN tasks : SameRun(i) =>
       /\ (tasks[i].st = "queued" /\ tasks'[i].st # "queued") =>
            tasks'[i].st =
              IF mastered_exists(heap[tasks[i].job]) /\ config.resume_on_failure
              THEN "rendering" ELSE "mastering"
       /\ tasks'[i].st = "mastering" =>
            tasks[i].st \in {"queued", "mastering"} /\ tasks'[i].master_calls = 0
       /\ tasks'[i].master_calls =
            tasks[i].master_calls
              + (IF tasks[i].st = "mastering" /\ tasks'[i].st # "mastering" THEN 1 ELSE 0)
       /\ tasks'[i].master_calls <= 1]_vars

\* C11 witness: with resume_on_failure on, a run is rendering without having
\* invoked mastering, while another run of the same call has invoked it once.
C11_Witness ==
  /\ config.resume_on_failure
  /\ \E i, j \in DOMAIN tasks :
       /\ tasks[i].st = "rendering" /\ tasks[i].master_calls = 0
       /\ tasks[j].st \in {"rendering", "done"} /\ tasks[j].master_calls = 1

\* C12: whenever the mastering stage fails for a job (master_audio_file
\* returns False), the job ends that run Failed with error_message "Audio
\* mastering failed", the run invokes no render, and the job's output_files
\* is empty, on first runs and on retried runs.
C12_MasteringFailureLeavesNoOutputs ==
  \A i \in DOMAIN tasks :
    tasks[i].master_result = "fail" =>
      /\ heap[tasks[i].job].status = FAILED
      /\ heap[tasks[i].job].error_message = "Audio mastering failed"
      /\ tasks[i].render_calls = 0
      /\ DOMAIN heap[tasks[i].job].output_files = {}

\* C13: after the render stage of a job has run, the job is Completed if and
\* only if every rendition succeeded; otherwise it is Failed, output_files
\* holds a path for each rendition that succeeded and null for each that
\* failed, and error_message lists exactly the keys of the failed renditions;
\* a Completed job has no null entry in output_files.
JobRenditions(job) ==
  Renditions([n \in DOMAIN job.platforms |-> get_platform_config(job.platforms[n])])

FailedKeys(calls, success) ==
  SelectSeq(KeyOrder(calls),
            LAMBDA k : \E n \in DOMAIN calls : RenditionKey(calls[n]) = k /\ ~success[n])

C13_CompletedIffEveryRenditionSucceeded ==
  /\ \A i \in DOMAIN tasks :
       (tasks[i].rendered /\ Cardinality(TasksOn(tasks[i].job)) = 1) =>
         LET job == heap[tasks[i].job]
             calls == JobRenditions(job)
             success == tasks[i].render_success
         IN /\ job.status = COMPLETED <=> \A n \in DOMAIN calls : success[n]
            /\ job.status \in Terminal
            /\ \A n \in DOMAIN calls :
                 /\ RenditionKey(calls[n]) \in DOMAIN job.output_files
                 /\ job.output_files[RenditionKey(calls[n])] # NONE <=> success[n]
            /\ job.status = FAILED =>
                 job.error_message
                   = "Failed to create videos: " \o ReprList(FailedKeys(calls, success))
  /\ \A i \in DOMAIN jobs :
       heap[jobs[i]].status = COMPLETED =>
         \A k \in DOMAIN heap[jobs[i]].output_files : heap[jobs[i]].output_files[k] # NONE

\* C14: in one pipeline run that reaches rendering, the render stage is
\* invoked exactly once for each (platform, supported aspect ratio) pair of
\* the job's platforms, and output_files afterwards has exactly one entry per
\* such pair, for every platform list add_job accepts.
PlatformRatioPairs(job) ==
  UNION { {<<p, r>> : r \in Range(get_platform_config(p).aspect_ratios)} :
            p \in Range(job.platforms) }

C14_OneRenderPerPlatformRatioPair ==
  \A i \in DOMAIN tasks :
    (tasks[i].rendered /\ Cardinality(TasksOn(tasks[i].job)) = 1) =>
      LET job == heap[tasks[i].job]
      IN /\ tasks[i].render_calls = Cardinality(PlatformRatioPairs(job))
         /\ Cardinality(DOMAIN job.output_files) = Cardinality(PlatformRatioPairs(job))

\* C15: in one process_all_jobs run the failure of one job changes no field
\* of any other job, every other job ends as it would have ended if the
\* failing job had succeeded, and the remaining dispatched jobs still reach a
\* terminal state.  A step of one run changes the fields of its own job
\* only; a run that starts after another job's mastering failed takes the
\* branch of the resume test it would have taken had that mastering
\* succeeded and written its artifact; and the call returns with every
\* dispatched job terminal.
StepOfRun(i) == SameRun(i) /\ tasks'[i].st # tasks[i].st

ResumeTest(d, job) == d[mastered_audio_path(job)] # NoAudio /\ config.resume_on_failure

C15_FailureOfOneJobLeavesOthersAlone ==
  [][/\ \A i \in DOMAIN tasks : StepOfRun(i) =>
          \A o \in DOMAIN heap : o # tasks[i].job => heap'[o] = heap[o]
     /\ \A j \in DOMAIN tasks : (StepOfRun(j) /\ tasks[j].st = "queued") =>
          \A i \in DOMAIN tasks :
            (tasks[i].job # tasks[j].job /\ tasks[i].master_result = "fail") =>
              LET failed_job == heap[tasks[i].job]
                  disk_if_ok == [disk EXCEPT ![mastered_audio_path(failed_job)] =
                                                failed_job.audio_file]
              IN ResumeTest(disk, heap[tasks[j].job])
                   <=> ResumeTest(disk_if_ok, heap[tasks[j].job])
     /\ (pc = "collecting" /\ pc' = "idle") =>
          \A o \in Range(ret'.dispatched) : heap'[o].status \in Terminal]_vars

\* C16: an exception raised while a job's pipeline runs (in mastering or in
\* rendering; platform resolution cannot raise for a job add_job accepted) is
\* caught inside that run: the step that raises leaves the job Failed with
\* error_message equal to the exception's description, and neither
\* process_all_jobs nor retry_failed_jobs raises to its caller.
RunRaised(t) ==
  /\ t.st = "done"
  /\ \/ t.master_result = "raise"
     \/ t.master_result # "fail" /\ ~t.rendered

C16_PipelineExceptionCaughtInRun ==
  [][/\ \A i \in DOMAIN tasks : (StepOfRun(i) /\ RunRaised(tasks'[i])) =>
          /\ heap'[tasks[i].job].status = FAILED
          /\ heap'[tasks[i].job].error_message = "OSError"
          /\ pc' = "collecting"
     /\ ret'.op \in ProcessOps => ret'.raised = NONE]_vars

\* C16 witness: a call has returned, without raising, a histogram with a
\* failed job, and a job it dispatched carries the exception's description.
C16_Witness ==
  /\ Returned(ProcessOps)
  /\ ret.raised = NONE
  /\ ret.counts[FAILED] >= 1
  /\ \E o \in Range(ret.dispatched) :
       heap[o].status = FAILED /\ heap[o].error_message = "OSError"

\* C17: retry_failed_jobs sets every Failed job to Pending with error_message
\* cleared and leaves every Completed job untouched, then runs the pipeline
\* exactly once for each job that was Failed or Pending at the call and for
\* no other job; when it returns no job is Pending or Processing.
RunsSubmittedFor(o) == Cardinality({i \in DOMAIN tasks' : tasks'[i].job = o})

C17_RetryRunsFailedAndPendingOnce ==
  [][/\ (pc = "idle" /\ ret'.op = "retry_failed_jobs") =>
          \A o \in Range(jobs) :
            /\ heap[o].status = FAILED =>
                 heap'[o].status = PENDING /\ heap'[o].error_message = NONE
            /\ heap[o].status = COMPLETED => heap'[o] = heap[o]
            /\ RunsSubmittedFor(o) =
                 IF heap[o].status \in {FAILED, PENDING} THEN 1 ELSE 0
     /\ (ret'.op = "retry_failed_jobs" /\ ret'.phase = "returned") =>
          \A i \in DOMAIN jobs' : heap'[jobs'[i]].status \in Terminal]_vars

\* C18: a report written by export_job_report while no job is being
\* processed reproduces the in-memory state: parsed back, its summary counts
\* completed, failed and pending equal the numbers of jobs in those statuses,
\* total_jobs equals the number of jobs and equals completed + failed +
\* pending; and exporting changes no job and no status.
json_load_int(text) == CHOOSE n \in 0..MaxJobs : ToString(n) = text

InMemoryCount(st) == Cardinality({i \in DOMAIN jobs : heap[jobs[i]].status = st})

ReportMatchesMemory ==
  LET summary == [k \in DOMAIN ret.report.summary |->
                    json_load_int(ret.report.summary[k])]
  IN /\ summary.completed = InMemoryCount(COMPLETED)
     /\ summary.failed = InMemoryCount(FAILED)
     /\ summary.pending = InMemoryCount(PENDING)
     /\ summary.total_jobs = Len(jobs)
     /\ summary.total_jobs = summary.completed + summary.failed + summary.pending

C18_ReportReproducesMemory ==
  [][ret'.op = "export_job_report" =>
       /\ ReportMatchesMemory'
       /\ UNCHANGED <<heap, jobs, disk>>]_vars

\* C18 witness: a report has been written for a collection of two jobs, one
\* Completed and one Failed.
C18_Witness ==
  /\ ret.op = "export_job_report"
  /\ ret.report.summary.total_jobs = "2"
  /\ ret.report.summary.completed = "1"
  /\ ret.report.summary.failed = "1"

\* C19: output paths are partitioned per job: any two distinct jobs of the
\* collection have different mastered-audio paths and different video output
\* directories, so two workers running at the same time never write the same
\* mastered-audio path or the same video directory.
C19_OutputPathsPerJob ==
  /\ \A i, j \in DOMAIN jobs :
       jobs[i] # jobs[j] =>
         /\ mastered_audio_path(heap[jobs[i]]) # mastered_audio_path(heap[jobs[j]])
         /\ video_output_dir(heap[jobs[i]]) # video_output_dir(heap[jobs[j]])
  /\ \A i, j \in DOMAIN tasks :
       (i # j /\ tasks[i].job # tasks[j].job) =>
         /\ (tasks[i].st = "mastering" /\ tasks[j].st = "mastering") =>
              mastered_audio_path(heap[tasks[i].job]) # mastered_audio_path(heap[tasks[j].job])
         /\ (tasks[i].st = "rendering" /\ tasks[j].st = "rendering") =>
              video_output_dir(heap[tasks[i].job]) # video_output_dir(heap[tasks[j].job])

\* C20: once jobs were created and processed, the batch-process command
\* exits with a non-zero code if and only if at least one job ended Failed,
\* and with code 0 exactly when every job is Completed; when a report file is
\* requested, the report of the jobs is written before the process exits,
\* also when some jobs failed.
CliExited == ret.op = "batch_process" /\ ret.phase = "returned"

BadAddBatchJobsArgs(args) ==
  \/ ~args.audio_dir.exists
  \/ ~args.image_file.exists
  \/ /\ args.audio_dir.files # <<>>
     /\ \E p \in Range(args.platforms) : Lower(p) \notin DOMAIN PLATFORM_CONFIGS

RECURSIVE SequentialStatuses(_, _)
SequentialStatuses(js, d) ==
  IF js = <<>> THEN <<>>
  ELSE LET job == heap[Head(js)]
           path == mastered_audio_path(job)
           masters == path \notin d \/ ~config.resume_on_failure
           ok == ~masters \/ FixedMasterOutcome(job.audio_file) = "ok"
       IN <<IF ok THEN COMPLETED ELSE FAILED>>
            \o SequentialStatuses(Tail(js), IF ok THEN d \cup {path} ELSE d)

C22_HistogramIndependentOfSchedule ==
  Returned({"process_all_jobs"}) =>
    LET expected == SequentialStatuses(ret.dispatched, {})
    IN /\ \A i \in DOMAIN ret.dispatched :
            heap[ret.dispatched[i]].status = expected[i]
       /\ \A st \in Statuses :
            ret.counts[st] = Cardinality({i \in DOMAIN expected : expected[i] = st})

\* C23: only clear_jobs removes jobs: the collection holds exactly the job
\* objects that were added since the last clear_jobs, each once, at its
\* insertion position (the write-back of a finished job never overwrites the
\* slot of a different job, also when two jobs have equal field values);
\* clear_jobs empties the collection and touches no output file.
C23_CollectionHoldsAddedJobsInPlace ==
  [][/\ Len(jobs') = Len(heap')
     /\ \A i \in DOMAIN jobs' : jobs'[i] = i
     /\ ret'.op = "clear_jobs" => (jobs' = <<>> /\ disk' = disk)]_vars

\* C24: when job_id is omitted, add_job assigns the id <audio base name>_<k>,
\* k being the number of jobs in the collection just before the call; as long
\* as every id in use is one so generated, the ids of the jobs in the
\* collection are pairwise distinct, also after clear_jobs and further
\* add_job calls.
IdOfPosition(o) == heap[o].audio_file.stem \o "_" \o ToString(o - 1)

OnlyGeneratedIds == \A o \in DOMAIN heap : heap[o].job_id = IdOfPosition(o)

C24_GeneratedIdsDistinct ==
  [][/\ (ret'.op = "add_job" /\ ret'.raised = NONE /\ ret'.args.job_id = NONE
           /\ Len(jobs') = Len(jobs) + 1) =>
          heap'[jobs'[Len(jobs')]].job_id
            = ret'.args.audio_file.stem \o "_" \o ToString(Len(jobs))
     /\ OnlyGeneratedIds' =>
          \A i, j \in DOMAIN jobs' :
            i # j => heap'[jobs'[i]].job_id # heap'[jobs'[j]].job_id]_vars

\* C24 witness: after earlier jobs were processed and cleared, the collection
\* holds two new jobs of the same audio base name, both with generated ids.
C24_Witness ==
  /\ OnlyGeneratedIds
  /\ ret.op = "add_job" /\ ret.raised = NONE /\ ret.args.job_id = NONE
  /\ Len(jobs) = 2
  /\ \A i \in DOMAIN jobs : heap[jobs[i]].status = PENDING
  /\ heap[jobs[1]].audio_file.stem = heap[jobs[2]].audio_file.stem
  /\ disk["a"] # NoAudio

\* C25: process_all_jobs hands the Pending jobs to the pool in the order of
\* the collection, and a worker runs one job's pipeline to its end before it
\* takes the next job: a job later in the list never starts processing while
\* an earlier dispatched job is still waiting for a worker.
C25_DispatchInInsertionOrder ==
  [][/\ (pc = "idle" /\ pc' = "collecting") =>
          [i \in DOMAIN tasks' |-> tasks'[i].job]
            = SelectSeq(jobs, LAMBDA o : heap'[o].status = PENDING)
     /\ \A i, j \in DOMAIN tasks' :
          (i < j /\ tasks'[j].st # "queued") => tasks'[i].st # "queued"
     /\ Cardinality({i \in DOMAIN tasks' : tasks'[i].st \in {"mastering", "rendering"}})
          <= config.max_concurrent_jobs]_vars

\* C25 witness: with one worker, the first of two dispatched jobs has
\* finished and the second is running.
C25_Witness ==
  /\ config.max_concurrent_jobs = 1
  /\ Len(tasks) = 2
  /\ tasks[1].st = "done"
  /\ tasks[2].st \in {"mastering", "rendering"}
  /\ tasks[1].job # tasks[2].job

\* C26: every report export_job_report writes is internally consistent: its
\* summary counts completed, failed and pending equal the numbers of records
\* with that status in the jobs array of the same report, also when the
\* export runs on another thread while process_all_jobs is processing jobs.
C26_ReportInternallyConsistent ==
  ReportComplete(ret.report) =>
    \A key \in {"completed", "failed", "pending"} :
      json_load_int(ret.report.summary[key])
        = Cardinality({i \in DOMAIN ret.report.jobs :
                         ret.report.jobs[i].status = StatusOfKey(key)})

\* C27: when two process_all_jobs calls on the same orchestrator overlap,
\* each Pending job is dispatched by only one of them: no job has two work
\* items, a worker that starts on a job finds it Pending (not Completed or
\* Failed, which it would move back to Processing) and no other worker is
\* processing the same job at that moment.
C27_OverlappingCallsDispatchOnce ==
  [][/\ \A i, j \in DOMAIN tasks' : tasks'[i].job = tasks'[j].job => i = j
     /\ \A i \in DOMAIN tasks :
          (i \in DOMAIN tasks' /\ tasks[i].st = "queued" /\ tasks'[i].st # "queued")
            => /\ heap[tasks[i].job].status = PENDING
               /\ \A j \in running : tasks[j].job # tasks[i].job]_vars

\* C28: the mastering step is skipped for a job only when the artifact on
\* disk was made from that job's own audio file, and the mastered audio the
\* render stage of a job reads was made from that job's own audio file, never
\* by the mastering run of a job with a different audio source.
C28_MasteredAudioIsTheJobsOwn ==
  [][\A i \in DOMAIN tasks :
       LET job == heap[tasks[i].job]
       IN /\ (i \in DOMAIN tasks' /\ tasks[i].st = "queued" /\ tasks'[i].st = "rendering")
               => disk[mastered_audio_path(job)] = job.audio_file
          /\ (i \in DOMAIN tasks' /\ tasks[i].st = "rendering" /\ tasks'[i].rendered)
               => disk[mastered_audio_path(job)] = job.audio_file]_vars

\* C29: the temporary prepared-image file of a create_video call is not
\* overwritten with another image or deleted by another worker while the
\* call is still using it (prepared, ffmpeg not yet finished), so ffmpeg
\* always finds the file its own call prepared.
C29_TempImageNotTouchedByOtherWorker ==
  [][\A i \in DOMAIN tasks :
       (tasks[i].st = "encoding" /\ i \in DOMAIN tasks')
         => LET image_path == heap[tasks[i].job].image_file
                r == create_video_calls(i)[create_video_calls_done(i) + 1]
                p == temp_image_path(image_path, r)
            IN /\ disk[p] = image_path
               /\ tasks'[i].st = "encoding" => disk'[p] = disk[p]]_vars

\* C30: if every stage invocation terminates and max_concurrent_jobs >= 1,
\* every process_all_jobs call eventually returns, and every job of its
\* snapshot has become Completed or Failed by then: no job stays queued in
\* the pool or Processing forever, also with more jobs than pool threads.
C30_EveryCallReturnsAndJobsFinish ==
  (pc = "collecting")
    ~> (/\ pc = "idle"
        /\ Returned(ProcessOps)
        /\ \A o \in Range(ret.dispatched) : heap[o].status \in Terminal)

\* a call with more jobs than pool threads has returned, all its jobs finished
C30_Witness ==
  /\ Returned(ProcessOps)
  /\ Len(ret.dispatched) > config.max_concurrent_jobs
  /\ \A o \in Range(ret.dispatched) : heap[o].status \in Terminal
====
